---- MODULE Spec2Model ----
(***************************************************************************)
(* Model of the CoinJoin investigator of bitcoin-tracer                    *)
(* (src/api/coinjoin_investigator.py): one CoinJoinInvestigator instance,  *)
(* its budget governor (_should_stop_early), and the tree-building         *)
(* traversal (build_tree_from_txid, build_tree_from_address,               *)
(* _build_tree_recursive) run as an explicit call stack over a             *)
(* transaction graph served by the block-explorer fetcher.                 *)
(***************************************************************************)
EXTENDS Integers, Sequences, FiniteSets, TLC

(***************************************************************************)
(* Bounds of the model.                                                    *)
(***************************************************************************)
\* number of transactions in the explorer's graph
NumTx == 12
\* investigations started on the one investigator instance
MaxRuns == 2
\* largest value of the wall clock
MaxClock == 2
\* call frames the interpreter allows before it raises RecursionError
RecursionLimit == 12
\* nodes after which the ratio rule of the governor applies: 100 in
\* _should_stop_early, scaled to the size of the graphs
RatioMinNodes == 3

Txs == 1..NumTx
Addrs == 1..(NumTx + 1)

(***************************************************************************)
(* Program constants.                                                      *)
(***************************************************************************)
\* hard ceiling of the depth limit
DepthCeiling == 10
\* default used when the caller's max_depth is falsy
DefaultDepth == 10
\* child transactions kept per output address
ChildCap == 5
\* depth guards of the pruning heuristics
LowScoreDepth == 4
ExchangeDepth == 3
ChildExchangeDepth == 5
SaturationDepth == 2
\* nodes after which the saturation guard applies: 500 in
\* _build_tree_recursive, scaled to the size of the graphs and kept above
\* the threshold of the ratio rule
SaturationNodes == 5
\* score (in hundredths) a node needs to pass the saturation guard
SaturationScore == 50

(***************************************************************************)
(* Small helpers.                                                          *)
(***************************************************************************)
Range(s) == {s[i] : i \in 1..Len(s)}

Take(s, n) == IF n <= 0 THEN <<>> ELSE SubSeq(s, 1, IF n < Len(s) THEN n ELSE Len(s))

Min(a, b) == IF a < b THEN a ELSE b

(***************************************************************************)
(* The block explorer's transaction graph.  A graph gives every            *)
(* transaction its input addresses (vin[*].prevout.scriptpubkey_address)   *)
(* and its ordered output addresses (vout[*].scriptpubkey_address).        *)
(* The family: a chain 1 -> 2 -> ... -> len in which transaction i spends  *)
(* address i and pays address i+1; the last transaction pays `tail`        *)
(* (0: no output; 1 or 2: back into the chain; len: its own input;         *)
(* len+1: an unspent address); with `fork` transaction 1 pays addresses 2  *)
(* and 3, so transaction 3 is reachable along two paths.  The short chains *)
(* take every tail; a chain of ForkLen forks; the longest chain is plain.  *)
(***************************************************************************)
ShortLens == {1, 2, 3}

\* long enough for the ratio rule to trip inside the forking chain
ForkLen == RatioMinNodes + 2

Tails(len) == {0, 1, 2, len, len + 1}

ChainGraph(len, tail, fork) ==
  [vin  |-> [t \in Txs |-> IF t <= len THEN {t} ELSE {}],
   vout |-> [t \in Txs |->
               IF t < len
               THEN IF t = 1 /\ fork /\ len >= 3 THEN <<2, 3>> ELSE <<t + 1>>
               ELSE IF t = len /\ tail # 0 THEN <<tail>> ELSE <<>>]]

\* transaction 1 pays its own input address 1, which transaction 2 spends
SelfLoopGraph ==
  [vin  |-> [t \in Txs |-> IF t \in {1, 2} THEN {1} ELSE {}],
   vout |-> [t \in Txs |-> IF t = 1 THEN <<1>>
                           ELSE IF t = 2 THEN <<3>> ELSE <<>>]]

\* transaction 1 pays address 2, which transactions 2 and 3 both spend
SharedAddressGraph ==
  [vin  |-> [t \in Txs |-> IF t = 1 THEN {1}
                           ELSE IF t \in {2, 3} THEN {2} ELSE {}],
   vout |-> [t \in Txs |-> IF t = 1 THEN <<2>> ELSE <<>>]]

\* transaction 1 spends addresses 1 and 4; the chain 1 -> 2 -> 3 pays
\* address 4 back, so a walk started at address 1 meets the input cluster
\* again without meeting its start address
ClusterGraph ==
  [vin  |-> [t \in Txs |-> IF t = 1 THEN {1, 4}
                           ELSE IF t \in {2, 3} THEN {t} ELSE {}],
   vout |-> [t \in Txs |-> IF t \in {1, 2, 3} THEN <<t + 1>> ELSE <<>>]]

\* transaction 1 pays addresses 2 and 3; six transactions (2..7) spend
\* address 2, one more than the child cap, and transaction 8 spends address 3
FanOutGraph ==
  [vin  |-> [t \in Txs |-> IF t = 1 THEN {1}
                           ELSE IF t \in 2..7 THEN {2}
                           ELSE IF t = 8 THEN {3} ELSE {}],
   vout |-> [t \in Txs |-> IF t = 1 THEN <<2, 3>> ELSE <<>>]]

\* the transaction at which the late fork graph forks: the last but one
\* node counted before the saturation guard applies, at depth > 2
LateFork == SaturationNodes - 1

\* the chain 1 -> ... -> LateFork; transaction LateFork pays two addresses;
\* the first is spent by LateFork + 1, whose output LateFork + 3 spends; the
\* second is spent by LateFork + 2
LateForkGraph ==
  [vin  |-> [t \in Txs |-> IF t <= LateFork + 3 THEN {t} ELSE {}],
   vout |-> [t \in Txs |->
               IF t < LateFork THEN <<t + 1>>
               ELSE IF t = LateFork THEN <<LateFork + 1, LateFork + 2>>
               ELSE IF t = LateFork + 1 THEN <<LateFork + 3>>
               ELSE <<>>]]

Graphs == UNION {{ChainGraph(len, tail, FALSE) : tail \in Tails(len)} :
                  len \in ShortLens}
          \cup {ChainGraph(ForkLen, 0, TRUE), ChainGraph(NumTx, 0, FALSE),
                SelfLoopGraph, SharedAddressGraph, ClusterGraph}

(***************************************************************************)
(* The heuristic scorer (detect_coinjoin) is a pure function of the        *)
(* transaction; scores are in hundredths.  The traversal reads             *)
(* is_coinjoin, score and exchange_like_score of its result.               *)
(***************************************************************************)
\* raises: detect_coinjoin raises an exception instead of returning
ScoreResults ==
  { [is_coinjoin |-> FALSE, score |-> 15, exchange_like_score |-> 0,
     raises |-> FALSE],
    [is_coinjoin |-> FALSE, score |-> 40, exchange_like_score |-> 0,
     raises |-> FALSE],
    [is_coinjoin |-> TRUE,  score |-> 75, exchange_like_score |-> 0,
     raises |-> FALSE],
    [is_coinjoin |-> FALSE, score |-> 40, exchange_like_score |-> 80,
     raises |-> FALSE],
    [is_coinjoin |-> FALSE, score |-> 60, exchange_like_score |-> 0,
     raises |-> FALSE],
    [is_coinjoin |-> FALSE, score |-> 0, exchange_like_score |-> 0,
     raises |-> TRUE] }

\* the scorers the model runs: every transaction scored alike
ScoreMaps == {[t \in Txs |-> r] : r \in ScoreResults}

(***************************************************************************)
(* Configuration read by CoinJoinInvestigator.__init__ (defaults of the    *)
(* source), and the configurations the model runs.                         *)
(***************************************************************************)
DefaultConfig ==
  [investigation_max_depth |-> 10,
   max_transactions_per_address |-> 15,
   max_non_cluster_steps |-> 5,
   max_branches_per_node |-> 5,
   min_heuristic_score |-> 20,
   max_exchange_like_score |-> 70,
   max_total_nodes |-> 1000,
   max_time_seconds |-> 60,
   min_coinjoin_ratio |-> 10]

\* the ratio rule switched off
NoRatioConfig == [DefaultConfig EXCEPT !.min_coinjoin_ratio = 0]

Configs ==
  {DefaultConfig,
   NoRatioConfig,
   [DefaultConfig EXCEPT !.max_total_nodes = 1],
   [DefaultConfig EXCEPT !.max_total_nodes = 2],
   [DefaultConfig EXCEPT !.max_time_seconds = 1]}

\* configurations run on the fan-out graph: five branches per node (the
\* default) and a single one
FanOutConfigs ==
  {NoRatioConfig, [NoRatioConfig EXCEPT !.max_branches_per_node = 1]}

\* max_depth arguments callers pass
DepthArgs == {-1, 0, 1, 11}

\* seeds callers pass
SeedTxids == {1}
SeedAddresses == {2}

VARIABLES
  chain,                    \* the explorer's graph
  scorer,                   \* the scorer, a function of the transaction
  config,                   \* the investigator's configuration
  now,                      \* wall clock, time.time()
  max_depth,
  visited_addresses,
  visited_transactions,
  coinjoin_addresses,
  coinjoin_transactions,
  original_input_addresses,
  start_address,
  total_nodes_processed,
  start_time,               \* <<>> is None, <<t>> a captured time
  should_stop_early,
  pc,                       \* "idle", "tree", "linear", "done", "crashed",
                            \* "raised"
  stack,                    \* call frames of the running traversal
  result,                   \* <<>> is {} or None, <<v>> a returned value
  stored,                   \* <<>> or <<data>>: what this investigation
                            \* handed to the result sink
  runs,                     \* investigations started on this instance
  fetches,                  \* fetch calls made in this investigation
  scorings,                 \* scorer calls made in this investigation
  inserts,                  \* visited_transactions.add calls per txid
  flagged,                  \* scored transactions flagged is_coinjoin
  stop_count,               \* times _should_stop_early() returned True
  entry,                    \* entry point of the current investigation
  depth_arg,                \* the max_depth argument it was called with
  original_max_depth,       \* investigate_from_address's local: <<>> or the
                            \* saved <<max_depth>>
  seed_txid,                \* the transaction it starts from
  last_fetch,               \* "ok" or "failed" when the step fetched, else "none"
  deepest_call,             \* depth of the last linear_investigation call
  last_outcome,             \* what the last entry checks decided
  cache,                    \* transaction_cache.cache.cache: the OrderedDict,
                            \* oldest entry first
  cache_clock,              \* time.time() as the cache reads it
  investigation,            \* per investigator: the run in progress
  lookup,                   \* the last cache lookup of a fetch, <<>> if none
  recency,                  \* the stored keys, least recently used first
  last_op,                  \* the last LRUCache method called, <<>> if none
  responses,                \* per address, what investigating it meets
  max_consecutive_non_coinjoin,
  investigation_queue,
  investigated_addresses,
  clusters,
  investigation_path,
  consecutive_non_coinjoin,
  queue_pc,                 \* "idle", "running" or "ended"
  stop_checks,              \* what should_stop_investigation() returned,
                            \* call by call
  enqueued                  \* addresses add_related_addresses appended

vars == <<chain, scorer, config, now, max_depth, visited_addresses,
          visited_transactions, coinjoin_addresses, coinjoin_transactions,
          original_input_addresses, start_address, total_nodes_processed,
          start_time, should_stop_early, pc, stack, result, stored, runs,
          fetches, scorings, inserts, flagged, stop_count, entry, depth_arg,
          original_max_depth,
          seed_txid, last_outcome, last_fetch, deepest_call,
          cache, cache_clock, investigation, lookup, recency, last_op,
          responses, max_consecutive_non_coinjoin, investigation_queue,
          investigated_addresses, clusters, investigation_path,
          consecutive_non_coinjoin, queue_pc, stop_checks, enqueued>>

\* the queue-based CoinJoinInvestigator
queue_vars ==
  <<responses, max_consecutive_non_coinjoin, investigation_queue,
    investigated_addresses, clusters, investigation_path,
    consecutive_non_coinjoin, queue_pc, stop_checks, enqueued>>

\* observations of the calls made on the LRUCache directly
lru_vars == <<recency, last_op>>

\* the process-wide cache and the investigations that share it
cache_vars ==
  <<cache, cache_clock, investigation, lookup, lru_vars, queue_vars>>

\* one investigator's traversal state
traversal_vars ==
  <<chain, scorer, config, now, max_depth, visited_addresses,
    visited_transactions, coinjoin_addresses, coinjoin_transactions,
    original_input_addresses, start_address, total_nodes_processed,
    start_time, should_stop_early, pc, stack, result, stored, runs,
    fetches, scorings, inserts, flagged, stop_count, entry, depth_arg,
    original_max_depth, seed_txid, last_outcome, last_fetch, deepest_call>>

world == <<chain, scorer, config>>

(***************************************************************************)
(* The fetcher's answers when a fetch succeeds.                            *)
(***************************************************************************)
\* the explorer lists an address's transactions newest first
NewestFirst == [i \in 1..NumTx |-> NumTx + 1 - i]

\* GET /address/{a}/txs: the transactions with a among inputs or outputs
AddressTransactions(a) ==
  SelectSeq(NewestFirst,
            LAMBDA t : a \in chain.vin[t] \/ a \in Range(chain.vout[t]))

\* mutant: a failed request still yields the address's transactions
ListedTransactionsAlways(ok, a) == AddressTransactions(a)

\* fetch_address_transactions: the list when the request succeeds, [] when
\* it fails (a status other than 200, or an exception, which is logged)
ListedTransactions(ok, a) == IF ok THEN AddressTransactions(a) ELSE <<>>

\* the output addresses of a transaction, in vout order
OutAddresses(t) == chain.vout[t]

(***************************************************************************)
(* Budget governor.                                                        *)
(***************************************************************************)
\* mutant: the node ceiling is compared with > instead of >=
ShouldStopEarlyOffByOne(tnow) ==
  \/ should_stop_early
  \/ total_nodes_processed > config.max_total_nodes
  \/ /\ start_time # <<>>
     /\ tnow - start_time[1] >= config.max_time_seconds
  \/ /\ total_nodes_processed > RatioMinNodes
     /\ Cardinality(coinjoin_transactions) * 100
          < config.min_coinjoin_ratio * total_nodes_processed

\* mutant: the elapsed time is compared with == instead of >=
ShouldStopEarlyExact(tnow) ==
  \/ should_stop_early
  \/ total_nodes_processed >= config.max_total_nodes
  \/ /\ start_time # <<>>
     /\ tnow - start_time[1] = config.max_time_seconds
  \/ /\ total_nodes_processed > RatioMinNodes
     /\ Cardinality(coinjoin_transactions) * 100
          < config.min_coinjoin_ratio * total_nodes_processed

\* mutant: the ratio rule is missing
ShouldStopEarlyNoRatio(tnow) ==
  \/ should_stop_early
  \/ total_nodes_processed >= config.max_total_nodes
  \/ /\ start_time # <<>>
     /\ tnow - start_time[1] >= config.max_time_seconds

ShouldStopEarly(tnow) ==
  \/ should_stop_early
  \/ total_nodes_processed >= config.max_total_nodes
  \/ /\ start_time # <<>>
     /\ tnow - start_time[1] >= config.max_time_seconds
  \/ /\ total_nodes_processed > RatioMinNodes
     /\ Cardinality(coinjoin_transactions) * 100
          < config.min_coinjoin_ratio * total_nodes_processed

\* values time.time() may return when the governor reads the clock: the
\* clock is read only here and when start_time is captured, so the time
\* that passes between two reads is added at the later read
ClockReads == IF start_time = <<>> THEN {now} ELSE now..MaxClock

(***************************************************************************)
(* Depth limit of a tree investigation: min(int(max_depth or 10), 10).     *)
(***************************************************************************)
ClampDepth(md) == Min(IF md = 0 THEN DefaultDepth ELSE md, DepthCeiling)

(***************************************************************************)
(* The returned tree: { 'tx': compact, 'out': [subtrees] }.                *)
(***************************************************************************)
CompactTx(t) ==
  [txid |-> t,
   vin_count |-> Cardinality(chain.vin[t]),
   vout_count |-> Len(chain.vout[t])]

Node(t, children) == [tx |-> CompactTx(t), out |-> children]

(***************************************************************************)
(* Call frames of _build_tree_recursive(tx_data, depth).  phase is the     *)
(* position in the body: "enter" (the checks before the address loop),     *)
(* "addr" (head of the loop over selected_addresses), "child" (head of the *)
(* loop over child_txids).                                                 *)
(***************************************************************************)
Frame(t, d) ==
  [tx |-> t, depth |-> d, phase |-> "enter", selected_addresses |-> <<>>,
   ai |-> 0, child_txids |-> <<>>, ci |-> 0, child_nodes |-> <<>>]

Top == stack[Len(stack)]
Rest == SubSeq(stack, 1, Len(stack) - 1)

\* the top frame returns value: to its caller's child_nodes, or to the
\* caller of build_tree_from_*
Return(value) ==
  /\ stack' = IF Rest = <<>> THEN <<>>
              ELSE [Rest EXCEPT ![Len(Rest)].child_nodes = Append(@, value),
                                ![Len(Rest)].ci = @ + 1]
  /\ pc' = IF Rest = <<>> THEN "done" ELSE pc
  /\ result' = IF Rest = <<>> THEN <<value>> ELSE result

\* an exception of the scorer is caught nowhere in the tree traversal: it
\* unwinds every frame and reaches the caller of build_tree_from_*
Raise ==
  /\ stack' = <<>>
  /\ pc' = "raised"

\* mutant: the depth check is off by one
DepthExhaustedOffByOne(f) == f.depth > max_depth

\* depth >= self.max_depth
DepthExhausted(f) == f.depth >= max_depth

\* mutant: the visited check is missing
AlreadyVisitedNever(f) == FALSE

\* txid in self.visited_transactions
AlreadyVisited(f) == f.tx \in visited_transactions

\* mutant: the low-score prune applies from depth 2 on, as it once did
PruneOutcomeShallow(f) ==
  LET r == scorer[f.tx] IN
  CASE r.score < config.min_heuristic_score /\ f.depth > 1
         -> "low_score"
    [] r.exchange_like_score > config.max_exchange_like_score
         /\ f.depth > ExchangeDepth -> "exchange_like"
    [] /\ f.depth > SaturationDepth
       /\ total_nodes_processed + 1 > SaturationNodes
       /\ ~r.is_coinjoin /\ r.score < SaturationScore -> "saturated"
    [] OTHER -> "expand"

\* mutant: the saturation guard is missing
PruneOutcomeUnsaturated(f) ==
  LET r == scorer[f.tx] IN
  CASE r.score < config.min_heuristic_score /\ f.depth > LowScoreDepth
         -> "low_score"
    [] r.exchange_like_score > config.max_exchange_like_score
         /\ f.depth > ExchangeDepth -> "exchange_like"
    [] OTHER -> "expand"

\* the pruning heuristics and the saturation guard, decided after the node
\* has been marked visited, counted and scored
PruneOutcome(f) ==
  LET r == scorer[f.tx] IN
  CASE r.score < config.min_heuristic_score /\ f.depth > LowScoreDepth
         -> "low_score"
    [] r.exchange_like_score > config.max_exchange_like_score
         /\ f.depth > ExchangeDepth -> "exchange_like"
    [] /\ f.depth > SaturationDepth
       /\ total_nodes_processed + 1 > SaturationNodes
       /\ ~r.is_coinjoin /\ r.score < SaturationScore -> "saturated"
    [] OTHER -> "expand"

\* mutant: the early returns for the depth limit and for visited
\* transactions are missing
EnterOutcomeUnguarded(f, tnow) ==
  IF ShouldStopEarly(tnow) THEN "stop" ELSE PruneOutcome(f)

\* what the checks before the address loop decide for frame f
EnterOutcome(f, tnow) ==
  CASE ShouldStopEarly(tnow) -> "stop"
    [] DepthExhausted(f) -> "depth"
    [] AlreadyVisited(f) -> "visited"
    [] OTHER -> PruneOutcome(f)

\* mutant: the list of child transactions is not cut to the child cap
ChildTxidsUncapped(txid, addr, address_txs) ==
  SelectSeq(address_txs, LAMBDA t : t # txid /\ addr \in chain.vin[t])

\* child transactions of txid through addr: those listed for addr, other
\* than txid, that have addr among their inputs; the first ChildCap
ChildTxids(txid, addr, address_txs) ==
  Take(SelectSeq(address_txs,
                 LAMBDA t : t # txid /\ addr \in chain.vin[t]),
       ChildCap)

(***************************************************************************)
(* utils/cache.py: LRUCache with a time to live, and the process-wide      *)
(* transaction_cache = TransactionCache(), which every CoinJoinInvestigator *)
(* of the process reads and writes.  The capacity (500 in the source) and  *)
(* the time to live (600 s) are scaled down; times are in whole seconds.   *)
(***************************************************************************)
max_size == 2

ttl_seconds == 1

\* the last instant of the cache's clock
MaxCacheTime == 2

\* the CoinJoinInvestigator instances of the process, one per request; each
\* runs one investigation
Investigators == {1, 2}

\* f"tx:{txid}" and f"addr:{address}"
TxKey(txid) == <<"tx", txid>>

AddrKey(address) == <<"addr", address>>

\* one transaction more than the cache holds, and one address
CacheTxids == 1..max_size

CacheAddresses == {1}

\* position of key in the OrderedDict, 0 when absent
Position(c, key) ==
  IF \E i \in 1..Len(c) : c[i].key = key
  THEN CHOOSE i \in 1..Len(c) : c[i].key = key
  ELSE 0

Remove(c, i) == SubSeq(c, 1, i - 1) \o SubSeq(c, i + 1, Len(c))

\* mutant: a successful get leaves the entry where it is
LRUCacheGetNoTouch(c, key, current_time) ==
  LET i == Position(c, key) IN
  IF i = 0 THEN [cache |-> c, value |-> <<>>]
  ELSE IF current_time - c[i].timestamp > ttl_seconds
  THEN [cache |-> Remove(c, i), value |-> <<>>]
  ELSE [cache |-> c, value |-> <<c[i].value>>]

\* LRUCache.get: None (<<>>) for an absent key and for an expired one, which
\* is deleted; otherwise the entry moves to the end and its value is returned
LRUCacheGet(c, key, current_time) ==
  LET i == Position(c, key) IN
  IF i = 0 THEN [cache |-> c, value |-> <<>>]
  ELSE IF current_time - c[i].timestamp > ttl_seconds
  THEN [cache |-> Remove(c, i), value |-> <<>>]
  ELSE [cache |-> Append(Remove(c, i), c[i]), value |-> <<c[i].value>>]

\* mutant: room is made before the existing entry of the key is deleted
LRUCacheSetEvictFirst(c, key, value, current_time) ==
  LET room == IF Len(c) >= max_size THEN Tail(c) ELSE c
      kept == IF Position(room, key) # 0
              THEN Remove(room, Position(room, key)) ELSE room
  IN Append(kept, [key |-> key, value |-> value, timestamp |-> current_time])

\* LRUCache.set: an existing entry of the key is deleted, then the oldest
\* entry if the cache is full, and the new entry goes to the end
LRUCacheSet(c, key, value, current_time) ==
  LET kept == IF Position(c, key) # 0 THEN Remove(c, Position(c, key)) ELSE c
      room == IF Len(kept) >= max_size THEN Tail(kept) ELSE kept
  IN Append(room, [key |-> key, value |-> value, timestamp |-> current_time])

\* LRUCache.cleanup_expired: the entries that stay
LRUCacheCleanupExpired(c, current_time) ==
  SelectSeq(c, LAMBDA e : ~(current_time - e.timestamp > ttl_seconds))

\* the keys and values of the calls made on the LRUCache directly: one key
\* more than the cache holds
LRUKeys == 1..(max_size + 1)

LRUValues == {"a", "b"}

(***************************************************************************)
(* The queue-based CoinJoinInvestigator.  What investigating an address    *)
(* meets: "none" no transactions fetched, "raises" the fetch, the          *)
(* clustering or the detection raises, "plain" no CoinJoin detected,       *)
(* "coinjoin" a CoinJoin detected and stored, "store_raises" a CoinJoin    *)
(* detected and store_coinjoin_transactions raises.                        *)
(***************************************************************************)
MaxQueueAddresses == 3

QueueAddresses == 1..MaxQueueAddresses

AddressResponses == {"none", "raises", "plain", "coinjoin", "store_raises"}

\* config.get('max_investigation_depth', 10)
max_investigation_depth == 10

\* the input and output addresses of the CoinJoin detected at an address
RelatedAddresses(address) == {address, (address % MaxQueueAddresses) + 1}

\* add_related_addresses: the queue after appending the related addresses
\* that are neither investigated nor queued
AddRelatedAddresses(queue, investigated, address) ==
  LET next == (address % MaxQueueAddresses) + 1
      fresh(a, q) == a \notin investigated
                     /\ \A n \in 1..Len(q) : q[n] # a
      first == IF fresh(address, queue) THEN Append(queue, address) ELSE queue
  IN IF fresh(next, first) THEN Append(first, next) ELSE first

\* mutant: no clusters counts as connected
HasClusterConnectionsVacuous(c) == c = {} \/ \E d \in c : d.connected

\* has_cluster_connections
HasClusterConnections(c) ==
  IF c = {} THEN FALSE ELSE \E d \in c : d.connected

\* should_stop_investigation
ShouldStopInvestigation(consecutive, c, path, queue) ==
  IF consecutive >= max_consecutive_non_coinjoin THEN TRUE
  ELSE IF ~HasClusterConnections(c) THEN TRUE
  ELSE IF Len(path) >= max_investigation_depth THEN TRUE
  ELSE IF queue = <<>> THEN TRUE
  ELSE FALSE

\* a freshly constructed CoinJoinInvestigator
QueueIdle ==
  /\ responses = [a \in QueueAddresses |-> "none"]
  /\ max_consecutive_non_coinjoin = 10
  /\ investigation_queue = <<>>
  /\ investigated_addresses = {}
  /\ clusters = {}
  /\ investigation_path = <<>>
  /\ consecutive_non_coinjoin = 0
  /\ queue_pc = "idle"
  /\ stop_checks = <<>>
  /\ enqueued = {}

\* the entry points of an investigation
EntryPoints == {"investigate_coinjoin", "investigate_from_address",
                "build_tree_from_txid", "build_tree_from_address"}

\* the entry points that call transaction_cache.clear()
ClearsCache(entry_point) == entry_point # "investigate_from_address"

\* no investigation has started and the cache is empty
CacheIdle ==
  /\ cache = <<>>
  /\ cache_clock = 0
  /\ investigation =
       [i \in Investigators |->
          [state |-> "idle", key |-> <<>>, fetched |-> {}]]
  /\ lookup = <<>>
  /\ recency = <<>>
  /\ last_op = <<>>
  /\ QueueIdle

(***************************************************************************)
(* Initial state: a freshly constructed investigator.                      *)
(***************************************************************************)
\* a freshly constructed CoinJoinInvestigator
Fresh ==
  /\ now = 0
  /\ max_depth = config.investigation_max_depth
  /\ visited_addresses = {}
  /\ visited_transactions = {}
  /\ coinjoin_addresses = {}
  /\ coinjoin_transactions = {}
  /\ original_input_addresses = {}
  /\ start_address = <<>>
  /\ total_nodes_processed = 0
  /\ start_time = <<>>
  /\ should_stop_early = FALSE
  /\ pc = "idle"
  /\ stack = <<>>
  /\ result = <<>>
  /\ stored = <<>>
  /\ runs = 0
  /\ fetches = 0
  /\ scorings = 0
  /\ inserts = [t \in Txs |-> 0]
  /\ flagged = 0
  /\ stop_count = 0
  /\ entry = "none"
  /\ depth_arg = 0
  /\ original_max_depth = <<>>
  /\ seed_txid = 1
  /\ last_outcome = "none"
  /\ last_fetch = "none"
  /\ deepest_call = 0

Init ==
  /\ chain \in Graphs
  /\ scorer \in ScoreMaps
  /\ config \in Configs
  /\ Fresh
  /\ CacheIdle

\* a caller may start an investigation when none is running
CanStart == pc \in {"idle", "done"} /\ runs < MaxRuns

\* the tracking sets every entry point clears, and the per-investigation
\* observation counters
ClearTracking ==
  /\ visited_transactions' = {}
  /\ visited_addresses' = {}
  /\ stored' = <<>>
  /\ runs' = runs + 1
  /\ scorings' = 0
  /\ inserts' = [t \in Txs |-> 0]
  /\ flagged' = 0
  /\ stop_count' = 0
  /\ last_outcome' = "none"
  /\ deepest_call' = 0

(***************************************************************************)
(* build_tree_from_txid(txid, max_depth)                                   *)
(***************************************************************************)
BuildTreeFromTxid(txid, md) ==
  /\ CanStart
  /\ ClearTracking
  /\ coinjoin_addresses' = {}
  /\ coinjoin_transactions' = {}
  /\ max_depth' = ClampDepth(md)
  /\ entry' = "txid"
  /\ seed_txid' = txid
  /\ depth_arg' = md
  /\ UNCHANGED original_max_depth
  /\ fetches' = 1
  /\ \E ok \in BOOLEAN :
       IF ok
       THEN /\ original_input_addresses' = chain.vin[txid]
            /\ stack' = <<Frame(txid, 0)>>
            /\ pc' = "tree"
            /\ result' = <<>>
            /\ last_fetch' = "ok"
       ELSE /\ original_input_addresses' = original_input_addresses
            /\ stack' = <<>>
            /\ pc' = "done"
            /\ result' = <<>>
            /\ last_fetch' = "failed"
  /\ UNCHANGED <<world, now, start_address, total_nodes_processed,
                 start_time, should_stop_early>>
  /\ UNCHANGED cache_vars

(***************************************************************************)
(* build_tree_from_address(address, max_depth)                             *)
(***************************************************************************)
\* the transaction the tree starts from: the first listed one with address
\* among its inputs, else the first listed one
StartTx(address, txs) ==
  LET spending == SelectSeq(txs, LAMBDA t : address \in chain.vin[t])
  IN IF spending # <<>> THEN spending[1] ELSE txs[1]

BuildTreeFromAddress(address, md) ==
  /\ CanStart
  /\ ClearTracking
  /\ coinjoin_addresses' = {}
  /\ coinjoin_transactions' = {}
  /\ max_depth' = ClampDepth(md)
  /\ entry' = "address"
  /\ depth_arg' = md
  /\ UNCHANGED original_max_depth
  /\ original_input_addresses' = {address}
  /\ \E ok \in BOOLEAN :
       LET txs == ListedTransactions(ok, address)
       IN IF txs = <<>>
          THEN /\ fetches' = 1
               /\ last_fetch' = IF ok THEN "ok" ELSE "failed"
               /\ seed_txid' = seed_txid
               /\ stack' = <<>>
               /\ pc' = "done"
               /\ result' = <<>>
          ELSE \* a failed detail fetch falls back to the listed record,
               \* which carries the same fields
               /\ fetches' = 2
               /\ last_fetch' = "ok"
               /\ seed_txid' = StartTx(address, txs)
               /\ stack' = <<Frame(StartTx(address, txs), 0)>>
               /\ pc' = "tree"
               /\ result' = <<>>
  /\ UNCHANGED <<world, now, start_address, total_nodes_processed,
                 start_time, should_stop_early>>
  /\ UNCHANGED cache_vars

(***************************************************************************)
(* _build_tree_recursive: the checks before the address loop.              *)
(***************************************************************************)
TreeEnter ==
  /\ pc = "tree"
  /\ Top.phase = "enter"
  /\ \E tnow \in ClockReads :
       LET guard == EnterOutcome(Top, tnow)
           expanded == guard \notin {"stop", "depth", "visited"}
           oc == IF expanded /\ scorer[Top.tx].raises THEN "raised"
                 ELSE guard
       IN /\ now' = tnow
          /\ last_outcome' = oc
          /\ last_fetch' = "none"
          /\ stop_count' = IF oc = "stop" THEN stop_count + 1 ELSE stop_count
          /\ visited_transactions' =
               IF expanded THEN visited_transactions \cup {Top.tx}
               ELSE visited_transactions
          /\ inserts' =
               IF expanded THEN [inserts EXCEPT ![Top.tx] = @ + 1]
               ELSE inserts
          /\ total_nodes_processed' =
               IF expanded THEN total_nodes_processed + 1
               ELSE total_nodes_processed
          /\ scorings' = IF expanded THEN scorings + 1 ELSE scorings
          /\ flagged' =
               IF expanded /\ oc # "raised" /\ scorer[Top.tx].is_coinjoin
               THEN flagged + 1
               ELSE flagged
          /\ IF oc = "raised"
             THEN Raise /\ UNCHANGED result
             ELSE IF oc = "expand"
             THEN /\ stack' = [stack EXCEPT
                       ![Len(stack)].phase = "addr",
                       ![Len(stack)].selected_addresses =
                           Take(OutAddresses(Top.tx),
                                config.max_branches_per_node),
                       ![Len(stack)].ai = 1]
                  /\ UNCHANGED <<pc, result>>
             ELSE Return(Node(Top.tx, <<>>))
  /\ UNCHANGED <<world, stored, max_depth, visited_addresses, coinjoin_addresses,
                 coinjoin_transactions, original_input_addresses,
                 start_address, start_time, should_stop_early, runs,
                 fetches, entry, depth_arg,
                 original_max_depth, seed_txid, deepest_call>>
  /\ UNCHANGED cache_vars

(***************************************************************************)
(* _build_tree_recursive: head of the loop over selected_addresses.        *)
(***************************************************************************)
\* mutant: the closure check on an output address ignores the depth
AddressClosedAtAnyDepth(addr, depth) == addr \in original_input_addresses

\* addr in self.original_input_addresses and depth > 0
AddressClosed(addr, depth) == addr \in original_input_addresses /\ depth > 0

TreeAddress ==
  /\ pc = "tree"
  /\ Top.phase = "addr"
  /\ IF Top.ai > Len(Top.selected_addresses)
     THEN /\ Return(Node(Top.tx, Top.child_nodes))
          /\ UNCHANGED fetches
          /\ last_fetch' = "none"
     ELSE LET addr == Top.selected_addresses[Top.ai] IN
          IF AddressClosed(addr, Top.depth)
          THEN /\ Return(Node(Top.tx, <<>>))
               /\ UNCHANGED fetches
               /\ last_fetch' = "none"
          ELSE \E ok \in BOOLEAN :
                 LET address_txs == ListedTransactions(ok, addr)
                 IN /\ fetches' = fetches + 1
                    /\ last_fetch' = IF ok THEN "ok" ELSE "failed"
                    /\ stack' = [stack EXCEPT
                         ![Len(stack)].phase = "child",
                         ![Len(stack)].child_txids =
                             ChildTxids(Top.tx, addr, address_txs),
                         ![Len(stack)].ci = 1]
                    /\ UNCHANGED <<pc, result>>
  /\ UNCHANGED <<world, stored, now, max_depth, visited_addresses,
                 visited_transactions, coinjoin_addresses,
                 coinjoin_transactions, original_input_addresses,
                 start_address, total_nodes_processed, start_time,
                 should_stop_early, runs, scorings, inserts, flagged,
                 stop_count, entry, depth_arg,
                 original_max_depth, seed_txid,
                 last_outcome, deepest_call>>
  /\ UNCHANGED cache_vars

(***************************************************************************)
(* _build_tree_recursive: head of the loop over child_txids.               *)
(***************************************************************************)
\* the candidate child is appended as a leaf without recursion
AppendLeaf(c) ==
  /\ stack' = [stack EXCEPT
                 ![Len(stack)].child_nodes = Append(@, Node(c, <<>>)),
                 ![Len(stack)].ci = @ + 1]
  /\ pc' = pc

\* a recursive call pushes a frame; past the interpreter's recursion limit
\* it raises RecursionError, which nothing in the traversal catches
Call(frame) ==
  IF Len(stack) < RecursionLimit
  THEN stack' = Append(stack, frame) /\ pc' = pc
  ELSE stack' = <<>> /\ pc' = "crashed"

ExchangeLikeChild(c, depth) ==
  /\ \/ scorer[c].score > config.max_exchange_like_score
     \/ scorer[c].exchange_like_score > config.max_exchange_like_score
  /\ depth > ChildExchangeDepth

\* mutant: the child closure check is missing
ChildClosedNever(c) == FALSE

\* mutant: the child closure check looks at the child's input addresses
ChildClosedByInputs(c) == chain.vin[c] \cap original_input_addresses # {}

\* child_out_addrs & self.original_input_addresses
ChildClosed(c) == Range(OutAddresses(c)) \cap original_input_addresses # {}

TreeChild ==
  /\ pc = "tree"
  /\ Top.phase = "child"
  /\ IF Top.ci > Len(Top.child_txids)
     THEN /\ stack' = [stack EXCEPT ![Len(stack)].phase = "addr",
                                    ![Len(stack)].ai = @ + 1]
          /\ UNCHANGED <<fetches, scorings, pc>>
          /\ last_fetch' = "none"
     ELSE LET c == Top.child_txids[Top.ci] IN
          \E ok \in BOOLEAN :
            /\ fetches' = fetches + 1
            /\ last_fetch' = IF ok THEN "ok" ELSE "failed"
            /\ IF ~ok
               THEN /\ stack' = [stack EXCEPT ![Len(stack)].ci = @ + 1]
                    /\ UNCHANGED <<scorings, pc>>
               ELSE IF ChildClosed(c)
               THEN /\ AppendLeaf(c)
                    /\ UNCHANGED scorings
               ELSE /\ scorings' = scorings + 1
                    /\ IF scorer[c].raises
                       THEN Raise
                       ELSE IF ExchangeLikeChild(c, Top.depth)
                       THEN AppendLeaf(c)
                       ELSE Call(Frame(c, Top.depth + 1))
  /\ UNCHANGED <<world, stored, now, max_depth, visited_addresses,
                 visited_transactions, coinjoin_addresses,
                 coinjoin_transactions, original_input_addresses,
                 start_address, total_nodes_processed, start_time,
                 should_stop_early, result, runs, inserts, flagged,
                 stop_count, entry, depth_arg,
                 original_max_depth, seed_txid,
                 last_outcome, deepest_call>>
  /\ UNCHANGED cache_vars

(***************************************************************************)
(* Linear single-path mode: investigate_coinjoin and linear_investigation. *)
(***************************************************************************)
\* extract_addresses_from_transaction: input and output addresses
ExtractAddresses(t) == chain.vin[t] \cup Range(chain.vout[t])

\* call frames of linear_investigation(current_address, depth,
\* non_cluster_steps); phase is "enter" (before the fetch), "scan" (head of
\* the loop over address_txs) or "merged" (after the one recursive call)
LinearFrame(a, d, steps) ==
  [current_address |-> a, depth |-> d, non_cluster_steps |-> steps,
   phase |-> "enter", address_txs |-> <<>>, ti |-> 0,
   results |-> [depth |-> d, addresses_processed |-> 0, coinjoin_found |-> 0,
                normal_found |-> 0, related_addresses |-> {},
                related_transactions |-> {}]]

\* the caller's results after merging the results of the one recursive call
MergeResults(res, sub) ==
  [res EXCEPT
     !.addresses_processed =
        IF sub.addresses_processed > @ THEN sub.addresses_processed ELSE @,
     !.coinjoin_found = @ + sub.coinjoin_found,
     !.normal_found = @ + sub.normal_found,
     !.related_addresses = @ \cup sub.related_addresses,
     !.related_transactions = @ \cup sub.related_transactions]

\* store_investigation_results: what the sink is handed
SinkData(txid, res, cj_addresses, cj_transactions) ==
  [original_txid |-> txid,
   coinjoin_addresses |-> cj_addresses,
   coinjoin_transactions |-> cj_transactions,
   related_addresses |-> res.related_addresses,
   related_transactions |-> res.related_transactions,
   depth_reached |-> res.depth,
   addresses_processed |-> res.addresses_processed,
   coinjoin_found |-> res.coinjoin_found,
   normal_found |-> res.normal_found]

\* the walk returns Top's results res.  A caller frame merges them and is
\* left after its one recursive call; the top-level call hands them to
\* investigate_coinjoin, which stores them in the sink (a failure of the
\* sink is logged and swallowed)
LinearReturn(res, cj_addresses, cj_transactions) ==
  IF Rest = <<>>
  THEN /\ stack' = <<>>
       /\ pc' = "done"
       /\ result' = <<res>>
       /\ IF entry = "from_address"
          THEN \* returned to the caller, nothing is written to the sink
               UNCHANGED stored
          ELSE \E ok \in BOOLEAN :
                 stored' = IF ok
                           THEN <<SinkData(seed_txid, res, cj_addresses,
                                           cj_transactions)>>
                           ELSE <<>>
  ELSE /\ stack' = [Rest EXCEPT
                      ![Len(Rest)].results = MergeResults(@, res),
                      ![Len(Rest)].phase = "merged"]
       /\ UNCHANGED <<pc, result, stored>>

\* where an exception raised inside linear_investigation leaves the
\* caller: investigate_coinjoin catches and logs it and returns without a
\* result, investigate_from_address lets it through
Unwound == IF entry = "from_address" THEN "raised" ELSE "done"

\* a recursive call of linear_investigation from caller frames stk; a
\* RecursionError unwinds the walk
LinearCall(stk, frame) ==
  IF Len(stk) < RecursionLimit
  THEN stack' = Append(stk, frame) /\ pc' = pc
  ELSE stack' = <<>> /\ pc' = Unwound

\* mutant: max_depth is restored after the return only
MaxDepthAfterReturnOnly(left) ==
  IF entry = "from_address" /\ left = "done"
  THEN original_max_depth[1] ELSE max_depth

\* max_depth once the walk is at left: investigate_from_address restores
\* it in its finally clause when the walk is over, returned or raised
MaxDepthAfter(left) ==
  IF entry = "from_address" /\ left # "linear"
  THEN original_max_depth[1] ELSE max_depth

\* the start address: next(iter(original_input_addresses)), any element of
\* the set; without input addresses the first output address
StartAddresses(txid) ==
  IF chain.vin[txid] # {} THEN chain.vin[txid]
  ELSE IF chain.vout[txid] # <<>> THEN {chain.vout[txid][1]}
  ELSE {}

InvestigateCoinjoin(txid) ==
  /\ CanStart
  /\ ClearTracking
  /\ entry' = "coinjoin"
  /\ seed_txid' = txid
  /\ fetches' = 0
  /\ total_nodes_processed' = 0
  /\ start_time' = <<now>>
  /\ should_stop_early' = FALSE
  /\ original_input_addresses' = chain.vin[txid]
  /\ IF StartAddresses(txid) = {}
     THEN \* no start address: logged, nothing investigated or stored
          /\ start_address' = <<>>
          /\ coinjoin_addresses' = {}
          /\ coinjoin_transactions' = {}
          /\ stack' = <<>>
          /\ pc' = "done"
     ELSE \E a \in StartAddresses(txid) :
            /\ start_address' = <<a>>
            /\ coinjoin_addresses' = ExtractAddresses(txid)
            /\ coinjoin_transactions' = {txid}
            /\ stack' = <<LinearFrame(a, 0, 0)>>
            /\ pc' = "linear"
  /\ result' = <<>>
  /\ last_fetch' = "none"
  /\ UNCHANGED <<world, now, max_depth, depth_arg,
                 original_max_depth>>
  /\ UNCHANGED cache_vars

(***************************************************************************)
(* investigate_from_address(address, max_depth): the walk from an address, *)
(* under a max_depth that the argument overrides when it is a positive     *)
(* int (None takes the branch of the non-positive arguments).              *)
(***************************************************************************)
FromAddresses == {1, 2}

InvestigateFromAddress(address, md) ==
  /\ CanStart
  /\ ClearTracking
  /\ coinjoin_addresses' = {}
  /\ coinjoin_transactions' = {}
  /\ original_input_addresses' = {address}
  /\ start_address' = <<address>>
  /\ original_max_depth' = <<max_depth>>
  /\ max_depth' = IF md > 0 THEN md ELSE max_depth
  /\ entry' = "from_address"
  /\ depth_arg' = md
  /\ fetches' = 0
  /\ stack' = <<LinearFrame(address, 0, 0)>>
  /\ pc' = "linear"
  /\ result' = <<>>
  /\ last_fetch' = "none"
  /\ UNCHANGED <<world, now, total_nodes_processed, start_time,
                 should_stop_early, seed_txid>>
  /\ UNCHANGED cache_vars

(***************************************************************************)
(* linear_investigation: from the call to the fetch.                       *)
(***************************************************************************)
\* mutant: the depth check of the walk is off by one
LinearDepthExhaustedOffByOne(f) == f.depth > max_depth

\* depth >= self.max_depth
LinearDepthExhausted(f) == f.depth >= max_depth

LinearEnter ==
  /\ pc = "linear"
  /\ Top.phase = "enter"
  /\ IF LinearDepthExhausted(Top)
     THEN /\ last_fetch' = "none"
          /\ LinearReturn(
               [Top.results EXCEPT
                  !.addresses_processed = Cardinality(visited_addresses),
                  !.coinjoin_found = Cardinality(coinjoin_transactions)],
               coinjoin_addresses, coinjoin_transactions)
          /\ UNCHANGED <<visited_addresses, fetches>>
     ELSE /\ visited_addresses' = visited_addresses \cup {Top.current_address}
          /\ fetches' = fetches + 1
          /\ \E ok \in BOOLEAN :
               /\ last_fetch' = IF ok THEN "ok" ELSE "failed"
               /\ stack' = [stack EXCEPT
                 ![Len(stack)].phase = "scan",
                 ![Len(stack)].address_txs =
                     Take(ListedTransactions(ok, Top.current_address),
                          config.max_transactions_per_address),
                 ![Len(stack)].ti = 1,
                 ![Len(stack)].results.addresses_processed =
                     Cardinality(visited_addresses')]
          /\ UNCHANGED <<pc, result, stored>>
  /\ max_depth' = MaxDepthAfter(pc')
  /\ UNCHANGED <<world, now, visited_transactions,
                 coinjoin_addresses, coinjoin_transactions,
                 original_input_addresses, start_address,
                 total_nodes_processed, start_time, should_stop_early, runs,
                 scorings, inserts, flagged, stop_count, entry, depth_arg,
                 original_max_depth,
                 seed_txid, last_outcome, deepest_call>>
  /\ UNCHANGED cache_vars

\* mutant: contact with the input cluster does not reset the counter
NonClusterStepsNoReset(tx_addresses, non_cluster_steps) ==
  non_cluster_steps + 1

\* the steps since the walk last touched the original input cluster
NonClusterSteps(tx_addresses, non_cluster_steps) ==
  IF tx_addresses \cap original_input_addresses # {} THEN 0
  ELSE non_cluster_steps + 1

\* the walk gives up: no cluster contact, and the counter is at the limit
NonClusterLimit(tx_addresses, non_cluster_steps) ==
  /\ tx_addresses \cap original_input_addresses = {}
  /\ non_cluster_steps >= config.max_non_cluster_steps

\* mutant: the loop closure is recognised one level too late
BackAtStartLate(tx_addresses, depth) ==
  /\ start_address # <<>>
  /\ start_address[1] \in tx_addresses
  /\ depth > 1

\* loop closure: the scanned transaction touches the start address
BackAtStart(tx_addresses, depth) ==
  /\ start_address # <<>>
  /\ start_address[1] \in tx_addresses
  /\ depth > 0

(***************************************************************************)
(* linear_investigation: one iteration of the loop over address_txs, and   *)
(* the return after the loop or after the one recursive call.              *)
(***************************************************************************)
LinearScan ==
  /\ pc = "linear"
  /\ Top.phase \in {"scan", "merged"}
  /\ IF Top.phase = "merged" \/ Top.ti > Len(Top.address_txs)
     THEN /\ LinearReturn(Top.results, coinjoin_addresses,
                          coinjoin_transactions)
          /\ UNCHANGED <<visited_transactions, coinjoin_addresses,
                         coinjoin_transactions, scorings>>
     ELSE
     LET txid == Top.address_txs[Top.ti]
         tx_addresses == ExtractAddresses(txid)
         seen == [Top.results EXCEPT
                    !.related_addresses = @ \cup tx_addresses,
                    !.related_transactions = @ \cup {txid}]
         hit == scorer[txid].is_coinjoin
         scored == IF hit
                   THEN [seen EXCEPT !.coinjoin_found = @ + 1] ELSE seen
         cj_addresses == IF hit THEN coinjoin_addresses \cup tx_addresses
                         ELSE coinjoin_addresses
         cj_transactions == IF hit THEN coinjoin_transactions \cup {txid}
                            ELSE coinjoin_transactions
         steps == NonClusterSteps(tx_addresses, Top.non_cluster_steps)
         candidates == tx_addresses \ {Top.current_address}
     IN
     IF txid \in visited_transactions
     THEN /\ stack' = [stack EXCEPT ![Len(stack)].ti = @ + 1]
          /\ UNCHANGED <<visited_transactions, coinjoin_addresses,
                         coinjoin_transactions, scorings, pc, result,
                         stored>>
     ELSE
       /\ visited_transactions' = visited_transactions \cup {txid}
       /\ IF BackAtStart(tx_addresses, Top.depth)
          THEN /\ LinearReturn(seen, coinjoin_addresses,
                               coinjoin_transactions)
               /\ UNCHANGED <<coinjoin_addresses, coinjoin_transactions,
                              scorings>>
          ELSE IF scorer[txid].raises
          THEN \* the scorer raises: nothing stored
               /\ scorings' = scorings + 1
               /\ stack' = <<>>
               /\ pc' = Unwound
               /\ UNCHANGED <<coinjoin_addresses, coinjoin_transactions,
                              result, stored>>
          ELSE /\ scorings' = scorings + 1
               /\ coinjoin_addresses' = cj_addresses
               /\ coinjoin_transactions' = cj_transactions
               /\ IF NonClusterLimit(tx_addresses, steps)
                  THEN LinearReturn(scored, cj_addresses, cj_transactions)
                  ELSE IF candidates = {}
                  THEN /\ stack' = [stack EXCEPT
                              ![Len(stack)].ti = @ + 1,
                              ![Len(stack)].non_cluster_steps = steps,
                              ![Len(stack)].results = scored]
                       /\ UNCHANGED <<pc, result, stored>>
                  ELSE \E next_address \in candidates :
                         /\ LinearCall(
                              [stack EXCEPT
                                 ![Len(stack)].non_cluster_steps = steps,
                                 ![Len(stack)].results = scored],
                              LinearFrame(next_address, Top.depth + 1,
                                          steps))
                         /\ UNCHANGED <<result, stored>>
  /\ last_fetch' = "none"
  /\ deepest_call' = IF Len(stack') > Len(stack)
                     THEN stack'[Len(stack')].depth ELSE deepest_call
  /\ flagged' = IF /\ scorings' = scorings + 1
                   /\ ~scorer[Top.address_txs[Top.ti]].raises
                   /\ scorer[Top.address_txs[Top.ti]].is_coinjoin
                THEN flagged + 1 ELSE flagged
  /\ max_depth' = MaxDepthAfter(pc')
  /\ UNCHANGED <<world, now, visited_addresses,
                 original_input_addresses, start_address,
                 total_nodes_processed, start_time, should_stop_early, runs,
                 fetches, inserts, stop_count, entry, depth_arg,
                 original_max_depth,
                 seed_txid, last_outcome>>
  /\ UNCHANGED cache_vars

(***************************************************************************)
(* The specification.                                                      *)
(***************************************************************************)
StartTree ==
  \/ \E txid \in SeedTxids, md \in DepthArgs : BuildTreeFromTxid(txid, md)
  \/ \E address \in SeedAddresses, md \in DepthArgs :
       BuildTreeFromAddress(address, md)

StartLinear == \E txid \in SeedTxids : InvestigateCoinjoin(txid)

TreeStep == TreeEnter \/ TreeAddress \/ TreeChild

LinearStep == LinearEnter \/ LinearScan

Next ==
  \/ StartTree
  \/ StartLinear
  \/ TreeStep
  \/ LinearStep

Spec == Init /\ [][Next]_vars

\* the same investigator over the graphs that fan out
FanOutInit ==
  /\ chain \in {FanOutGraph, LateForkGraph}
  /\ scorer \in ScoreMaps
  /\ config \in FanOutConfigs
  /\ Fresh
  /\ CacheIdle

FanOutSpec == FanOutInit /\ [][Next]_vars

\* a started traversal keeps being run by the event loop: every fetch
\* returns (with data or without), and the coroutine is resumed
FairSpec == Spec /\ WF_vars(TreeStep) /\ WF_vars(LinearStep)

\* the walks started from an address
StartFromAddress ==
  \E address \in FromAddresses, md \in DepthArgs :
    InvestigateFromAddress(address, md)

AddressNext ==
  \/ StartFromAddress
  \/ LinearStep

AddressSpec == Init /\ [][AddressNext]_vars

(***************************************************************************)
(* The shared cache under the investigations of one process.  Each         *)
(* investigation is a coroutine on its own investigator: it starts at an   *)
(* entry point, requests keys one at a time, is suspended while a request  *)
(* is on the network, and ends.  The value of an entry is the data the     *)
(* explorer returned, tagged with the investigator that fetched it.        *)
(***************************************************************************)
\* an entry point is called on investigator i
Begin(i, entry_point) ==
  /\ investigation[i].state = "idle"
  /\ cache' = IF ClearsCache(entry_point) THEN <<>> ELSE cache
  /\ investigation' = [investigation EXCEPT ![i].state = "running"]
  /\ lookup' = <<>>
  /\ UNCHANGED <<cache_clock,
               traversal_vars, lru_vars, queue_vars>>

\* the cache check of a fetch; on a miss the request goes out and the
\* coroutine is suspended
Fetch(i, key) ==
  /\ investigation[i].state = "running"
  /\ LET got == LRUCacheGet(cache, key, cache_clock)
     IN /\ cache' = got.cache
        /\ lookup' = [by |-> i, hit |-> got.value # <<>>,
                      value |-> got.value,
                      known |-> key \in investigation[i].fetched]
        /\ investigation' =
             IF got.value # <<>> THEN investigation
             ELSE [investigation EXCEPT ![i].state = "waiting",
                                        ![i].key = <<key>>]
  /\ UNCHANGED <<cache_clock,
               traversal_vars, lru_vars, queue_vars>>

FetchTransactionDetails(i, txid) == Fetch(i, TxKey(txid))

FetchAddressTransactions(i, address) == Fetch(i, AddrKey(address))

\* the explorer answers: only a 200 response is stored
Response(i, ok) ==
  /\ investigation[i].state = "waiting"
  /\ LET key == investigation[i].key[1]
     IN /\ cache' =
             IF ok
             THEN LRUCacheSet(cache, key, [owner |-> i], cache_clock)
             ELSE cache
        /\ investigation' =
             [investigation EXCEPT
                ![i].state = "running",
                ![i].key = <<>>,
                ![i].fetched = IF ok THEN @ \cup {key} ELSE @]
  /\ UNCHANGED <<cache_clock, lookup,
               traversal_vars, lru_vars, queue_vars>>

\* the entry point returns
End(i) ==
  /\ investigation[i].state = "running"
  /\ investigation' = [investigation EXCEPT ![i].state = "ended"]
  /\ UNCHANGED <<cache, cache_clock, lookup,
               traversal_vars, lru_vars, queue_vars>>

\* a second passes
Tick ==
  /\ cache_clock < MaxCacheTime
  /\ cache_clock' = cache_clock + 1
  /\ UNCHANGED <<cache, investigation, lookup,
               traversal_vars, lru_vars, queue_vars>>

CacheInit ==
  /\ chain = ChainGraph(1, 0, FALSE)
  /\ scorer = [t \in Txs |-> [is_coinjoin |-> FALSE, score |-> 15,
                               exchange_like_score |-> 0, raises |-> FALSE]]
  /\ config = DefaultConfig
  /\ Fresh
  /\ CacheIdle

CacheNext ==
  \/ \E i \in Investigators, entry_point \in EntryPoints :
       Begin(i, entry_point)
  \/ \E i \in Investigators, txid \in CacheTxids :
       FetchTransactionDetails(i, txid)
  \/ \E i \in Investigators, address \in CacheAddresses :
       FetchAddressTransactions(i, address)
  \/ \E i \in Investigators, ok \in BOOLEAN : Response(i, ok)
  \/ \E i \in Investigators : End(i)
  \/ Tick

CacheSpec == CacheInit /\ [][CacheNext]_vars

(***************************************************************************)
(* An LRUCache under any sequence of its methods.  recency lists the       *)
(* stored keys by their last use, a set or a successful get (has is a      *)
(* get), least recently used first.                                        *)
(***************************************************************************)
\* recency once the cache is c: key moved to the end if touched, keys no
\* longer stored dropped
Touched(c, key, touched) ==
  LET others == SelectSeq(recency,
                          LAMBDA k : Position(c, k) # 0 /\ (touched => k # key))
  IN IF touched THEN Append(others, key) ELSE others

LRUSet(key, value) ==
  /\ cache' = LRUCacheSet(cache, key, value, cache_clock)
  /\ recency' = Touched(cache', key, TRUE)
  /\ last_op' = [op |-> "set", key |-> key,
                 dropped |-> {cache[n] : n \in 1..Len(cache)}
                               \ {cache'[n] : n \in 1..Len(cache')}]
  /\ UNCHANGED <<cache_clock, investigation, lookup, traversal_vars,
               queue_vars>>

LRUGet(key) ==
  /\ LET got == LRUCacheGet(cache, key, cache_clock)
     IN /\ cache' = got.cache
        /\ recency' = Touched(got.cache, key, got.value # <<>>)
        /\ last_op' = [op |-> "get", key |-> key, dropped |-> {}]
  /\ UNCHANGED <<cache_clock, investigation, lookup, traversal_vars,
               queue_vars>>

\* LRUCache.has: self.get(key) is not None
LRUHas(key) ==
  /\ LET got == LRUCacheGet(cache, key, cache_clock)
     IN /\ cache' = got.cache
        /\ recency' = Touched(got.cache, key, got.value # <<>>)
        /\ last_op' = [op |-> "has", key |-> key, dropped |-> {}]
  /\ UNCHANGED <<cache_clock, investigation, lookup, traversal_vars,
               queue_vars>>

LRUClear ==
  /\ cache' = <<>>
  /\ recency' = <<>>
  /\ last_op' = [op |-> "clear", key |-> 0, dropped |-> {}]
  /\ UNCHANGED <<cache_clock, investigation, lookup, traversal_vars,
               queue_vars>>

LRUCleanupExpired ==
  /\ cache' = LRUCacheCleanupExpired(cache, cache_clock)
  /\ recency' = Touched(cache', 0, FALSE)
  /\ last_op' = [op |-> "cleanup_expired", key |-> 0, dropped |-> {}]
  /\ UNCHANGED <<cache_clock, investigation, lookup, traversal_vars,
               queue_vars>>

LRUNext ==
  \/ \E key \in LRUKeys, value \in LRUValues : LRUSet(key, value)
  \/ \E key \in LRUKeys : LRUGet(key)
  \/ \E key \in LRUKeys : LRUHas(key)
  \/ LRUClear
  \/ LRUCleanupExpired
  \/ Tick

LRUSpec == CacheInit /\ [][LRUNext]_vars

(***************************************************************************)
(* The queue-based investigate_addresses, one step per pass of its loop.   *)
(***************************************************************************)
MaxInitialAddresses == 2

InitialAddressLists ==
  UNION {[1..n -> QueueAddresses] : n \in 1..MaxInitialAddresses}

\* investigate_addresses up to its loop
InvestigateAddresses(initial_addresses) ==
  /\ queue_pc = "idle"
  /\ investigation_queue' = initial_addresses
  /\ investigated_addresses' = {}
  /\ clusters' = {}
  /\ investigation_path' = <<>>
  /\ consecutive_non_coinjoin' = 0
  /\ queue_pc' = "running"
  /\ UNCHANGED <<responses, max_consecutive_non_coinjoin, stop_checks,
                 enqueued>>
  /\ UNCHANGED <<cache, cache_clock, investigation, lookup, lru_vars,
                 traversal_vars>>

\* one pass of the loop
InvestigateNext ==
  /\ queue_pc = "running"
  /\ investigation_queue # <<>>
  /\ LET address == Head(investigation_queue)
         queue == Tail(investigation_queue)
         response == responses[address]
         found == response \in {"coinjoin", "store_raises"}
         consecutive == IF found THEN 0 ELSE consecutive_non_coinjoin + 1
         related == IF found
                    THEN AddRelatedAddresses(queue,
                           investigated_addresses \cup {address}, address)
                    ELSE queue
         stop == ShouldStopInvestigation(consecutive, clusters,
                                         investigation_path, related)
     IN IF address \in investigated_addresses
           \/ response \in {"none", "raises"}
        THEN \* continue
             /\ investigation_queue' = queue
             /\ UNCHANGED <<investigated_addresses, consecutive_non_coinjoin,
                            queue_pc, stop_checks, enqueued>>
        ELSE /\ investigated_addresses' =
                  investigated_addresses \cup {address}
             /\ consecutive_non_coinjoin' = consecutive
             /\ investigation_queue' = related
             /\ enqueued' = enqueued
                  \cup {related[n] : n \in (Len(queue) + 1)..Len(related)}
             /\ IF response = "store_raises"
                THEN \* except Exception: continue
                     UNCHANGED <<queue_pc, stop_checks>>
                ELSE /\ stop_checks' = Append(stop_checks, stop)
                     /\ queue_pc' = IF stop THEN "ended" ELSE "running"
  /\ UNCHANGED <<responses, max_consecutive_non_coinjoin, clusters,
                 investigation_path>>
  /\ UNCHANGED <<cache, cache_clock, investigation, lookup, lru_vars,
                 traversal_vars>>

\* the queue is empty: the loop ends and the report is made
InvestigateReport ==
  /\ queue_pc = "running"
  /\ investigation_queue = <<>>
  /\ queue_pc' = "ended"
  /\ UNCHANGED <<responses, max_consecutive_non_coinjoin,
                 investigation_queue, investigated_addresses, clusters,
                 investigation_path, consecutive_non_coinjoin, stop_checks,
                 enqueued>>
  /\ UNCHANGED <<cache, cache_clock, investigation, lookup, lru_vars,
                 traversal_vars>>

QueueInit ==
  /\ chain = ChainGraph(1, 0, FALSE)
  /\ scorer = [t \in Txs |-> [is_coinjoin |-> FALSE, score |-> 15,
                               exchange_like_score |-> 0, raises |-> FALSE]]
  /\ config = DefaultConfig
  /\ Fresh
  /\ cache = <<>>
  /\ cache_clock = 0
  /\ investigation = [i \in Investigators |->
                        [state |-> "idle", key |-> <<>>, fetched |-> {}]]
  /\ lookup = <<>>
  /\ recency = <<>>
  /\ last_op = <<>>
  /\ responses \in [QueueAddresses -> AddressResponses]
  /\ max_consecutive_non_coinjoin \in {1, 10}
  /\ investigation_queue = <<>>
  /\ investigated_addresses = {}
  /\ clusters = {}
  /\ investigation_path = <<>>
  /\ consecutive_non_coinjoin = 0
  /\ queue_pc = "idle"
  /\ stop_checks = <<>>
  /\ enqueued = {}

QueueNext ==
  \/ \E initial_addresses \in InitialAddressLists :
       InvestigateAddresses(initial_addresses)
  \/ InvestigateNext
  \/ InvestigateReport

QueueSpec == QueueInit /\ [][QueueNext]_vars

(***************************************************************************)
(* Properties.                                                             *)
(***************************************************************************)
InTree == entry \in {"txid", "address"}

MaxOf(S) == CHOOSE x \in S : \A y \in S : y <= x

RECURSIVE Height(_)
\* edges on the longest root-to-leaf path of a tree
Height(tree) ==
  IF tree.out = <<>> THEN 0
  ELSE 1 + MaxOf({Height(tree.out[i]) : i \in 1..Len(tree.out)})

\* C1: every tree investigation that has started eventually returns to its
\* caller, on every graph of the family (cyclic ones included), for every
\* scorer, every fetch outcome and every max_depth argument, also under the
\* configurations whose governor never trips.  Control comes back with a
\* tree, or with the scorer's exception when the scorer raises (C12).
C1_TreeTerminates == (pc = "tree") ~> (pc \in {"done", "raised"})

\* C1 witness: a tree investigation over the cyclic graph 1 -> 2 -> 3 -> 2
\* has expanded all three transactions with the ratio rule switched off and
\* ceilings the governor never reaches, and has returned.
C1_Witness ==
  /\ pc = "done"
  /\ InTree
  /\ chain = ChainGraph(3, 2, FALSE)
  /\ config = NoRatioConfig
  /\ visited_transactions = {1, 2, 3}
  /\ stop_count = 0
  /\ result # <<>>

\* C2: within one tree investigation no txid is inserted into
\* visited_transactions more than once, and a call of
\* _build_tree_recursive for a txid that is already in
\* visited_transactions returns a leaf without children to its caller
\* without changing visited_transactions or total_nodes_processed and
\* without any scoring or fetch.
C2_NoDuplicateExpansion ==
  /\ [](InTree => \A t \in Txs : inserts[t] <= 1)
  /\ [][(pc = "tree" /\ Top.phase = "enter"
           /\ Top.tx \in visited_transactions)
        => /\ visited_transactions' = visited_transactions
           /\ total_nodes_processed' = total_nodes_processed
           /\ scorings' = scorings
           /\ fetches' = fetches
           /\ Len(stack) > 1
           /\ Len(stack') = Len(stack) - 1
           /\ stack'[Len(stack')].child_nodes =
                Append(stack[Len(stack) - 1].child_nodes,
                       Node(Top.tx, <<>>))]_vars

\* C2 witness: a transaction already in visited_transactions was visited
\* again and handed to its caller as a leaf.
C2_Witness ==
  /\ InTree
  /\ pc = "tree"
  /\ last_outcome = "visited"
  /\ Top.child_nodes # <<>>
  /\ Top.child_nodes[Len(Top.child_nodes)].tx.txid \in visited_transactions
  /\ Top.child_nodes[Len(Top.child_nodes)].out = <<>>

PathBound(md) ==
  IF md = 0 THEN 10 ELSE IF md < 0 THEN 0 ELSE IF md > 10 THEN 10 ELSE md

C4_Original ==
  /\ InTree =>
       max_depth = (IF depth_arg > 10 THEN 10
                    ELSE IF depth_arg <= 0 THEN 1 ELSE depth_arg)
  /\ (InTree /\ pc = "done" /\ result # <<>> /\ depth_arg <= 0
        /\ stop_count = 0)
       => seed_txid \in visited_transactions

\* C5: in a tree investigation neither the transactions marked visited
\* nor total_nodes_processed exceed max_total_nodes.
C5_NodeCeiling ==
  InTree => /\ Cardinality(visited_transactions) <= config.max_total_nodes
            /\ total_nodes_processed <= config.max_total_nodes

\* C5 witness: a tree investigation has expanded max_total_nodes = 2
\* transactions and the governor has stopped a further visit.
C5_Witness ==
  /\ InTree
  /\ config.max_total_nodes = 2
  /\ runs = 1
  /\ Cardinality(visited_transactions) = 2
  /\ total_nodes_processed = 2
  /\ stop_count > 0

\* C6 as claimed: once _should_stop_early() has returned True in a tree
\* traversal, no fetch is issued in that traversal any more.
C6_NoFetchAfterStop ==
  [][(pc = "tree" /\ stop_count > 0) => fetches' = fetches]_vars

\* C7: once _should_stop_early() has returned True in a tree traversal,
\* every later visit of a node in that traversal finds it True again.
C7_StopSticky ==
  [][(pc = "tree" /\ stop_count > 0 /\ Top.phase = "enter")
       => (last_outcome' = "stop" /\ stop_count' = stop_count + 1)]_vars

\* C7 witness: in one tree traversal _should_stop_early() has returned
\* True by the ratio rule alone at a visit and again at a later visit.
C7_Witness ==
  /\ InTree
  /\ pc = "tree"
  /\ stop_count = 2
  /\ last_outcome = "stop"
  /\ start_time = <<>>
  /\ total_nodes_processed < config.max_total_nodes
  /\ total_nodes_processed > RatioMinNodes

\* C8 as claimed: when the seed of a tree investigation is visited,
\* total_nodes_processed is 0 and the stop flag is clear, and the governor
\* does not turn the seed into a leaf.
C8_GovernorReset ==
  /\ (InTree /\ pc = "tree" /\ Len(stack) = 1 /\ Top.phase = "enter")
       => (total_nodes_processed = 0 /\ ~should_stop_early)
  /\ ~(InTree /\ pc = "done" /\ result # <<>> /\ stop_count > 0
         /\ visited_transactions = {})

\* C9 as claimed: during a tree traversal the hit count of the ratio rule,
\* len(coinjoin_transactions), is the number of expanded nodes the scorer
\* flagged is_coinjoin.
C9_HitCount ==
  InTree => Cardinality(coinjoin_transactions) = flagged

\* some output address of t is in the original input cluster
OutputsTouchCluster(t) ==
  \E i \in 1..Len(chain.vout[t]) :
    chain.vout[t][i] \in original_input_addresses

RECURSIVE ClosedAreLeaves(_)
\* below the root of tree, every node of a transaction other than the
\* seed whose outputs touch the cluster has no children
ClosedAreLeaves(tree) ==
  \A i \in 1..Len(tree.out) :
    /\ (tree.out[i].tx.txid # seed_txid
          /\ OutputsTouchCluster(tree.out[i].tx.txid))
         => tree.out[i].out = <<>>
    /\ ClosedAreLeaves(tree.out[i])

\* C10: a transaction other than the seed whose outputs touch the original
\* input cluster is never entered by _build_tree_recursive (so nothing is
\* fetched beyond it), is never in visited_transactions, and has no
\* children wherever it occurs in the subtrees built so far or in the
\* returned tree.
C10_ClosureLeaf ==
  (InTree /\ pc \in {"tree", "done"}) =>
    /\ \A i \in 2..Len(stack) : ~OutputsTouchCluster(stack[i].tx)
    /\ \A t \in visited_transactions \ {seed_txid} : ~OutputsTouchCluster(t)
    /\ \A i \in 1..Len(stack) :
         ClosedAreLeaves(Node(stack[i].tx, stack[i].child_nodes))
    /\ result # <<>> => ClosedAreLeaves(result[1])

\* C10 witness: the returned tree holds, as a child of the expanded seed, a
\* transaction other than the seed whose outputs touch the cluster.
C10_Witness ==
  /\ InTree
  /\ pc = "done"
  /\ result # <<>>
  /\ \E i \in 1..Len(result[1].out) :
       /\ result[1].out[i].tx.txid # seed_txid
       /\ OutputsTouchCluster(result[1].out[i].tx.txid)
       /\ result[1].out[i].out = <<>>

\* the seed pays one of its own input addresses
SelfLoopSeed ==
  Range(chain.vout[seed_txid]) \cap chain.vin[seed_txid] # {}

\* C11 as claimed: when the seed pays one of its own input addresses and
\* max_depth >= 1, the tree returned by build_tree_from_txid has a root
\* without children.
C11_Original ==
  (entry = "txid" /\ pc = "done" /\ result # <<>> /\ max_depth >= 1
     /\ SelfLoopSeed)
    => result[1].out = <<>>

\* C11 as amended: the closure check on an output address needs depth > 0,
\* so it never applies to the seed: for an output address of the seed that
\* is among the seed's input addresses the address's transactions are
\* fetched like for any other address, and when the fetch succeeds every
\* other transaction that spends from the address (up to the child cap)
\* becomes a candidate child of the root.
C11_SeedNotClosed ==
  [][(pc = "tree" /\ entry = "txid" /\ Len(stack) = 1 /\ Top.phase = "addr"
        /\ Top.ai <= Len(Top.selected_addresses)
        /\ Top.selected_addresses[Top.ai] \in chain.vin[seed_txid])
     => /\ fetches' = fetches + 1
        /\ pc' = "tree"
        /\ Len(stack') = 1
        /\ stack'[1].phase = "child"
        /\ stack'[1].child_nodes = Top.child_nodes
        /\ last_fetch' = "ok" =>
             Range(stack'[1].child_txids) =
               {t \in Txs \ {seed_txid} :
                  Top.selected_addresses[Top.ai] \in chain.vin[t]}]_vars

\* C11 witness: build_tree_from_txid returned, for a seed that pays its own
\* input address, a root with a child.
C11_Witness ==
  /\ entry = "txid"
  /\ pc = "done"
  /\ max_depth >= 1
  /\ SelfLoopSeed
  /\ result # <<>>
  /\ result[1].tx.txid = seed_txid
  /\ result[1].out # <<>>

\* C12: an exception raised by the scorer while scoring a node or a candidate
\* child never aborts a tree investigation: build_tree_from_txid and
\* build_tree_from_address never end by propagating the exception.
C12_ScorerContained == InTree => pc # "raised"

C14_ClearedAtStart ==
  [][(\E i \in Investigators :
        investigation[i].state = "idle" /\ investigation'[i].state = "running")
     => cache' = <<>>]_vars

\* C15: interleaved investigations do not interfere through the cache: a
\* cache hit returns a value stored by the investigation that asked, and the
\* start of one investigation removes no entry another one has stored.
C15_NoInterference ==
  /\ [](lookup # <<>> /\ lookup.hit => lookup.value[1].owner = lookup.by)
  /\ [][\A i \in Investigators :
          investigation[i].state = "idle" /\ investigation'[i].state = "running"
          => \A n \in 1..Len(cache) :
               cache[n].value.owner # i => Position(cache', cache[n].key) # 0]_vars

\* C16: within one investigation a key fetched successfully once is served
\* from the cache at every later request, whatever was fetched in between
\* (stated for an investigation that runs alone in the process and within
\* the time to live of its entries).
C16_Memoized ==
  (investigation[2].state = "idle" /\ cache_clock = 0 /\ lookup # <<>>
     /\ lookup.known)
    => lookup.hit

\* the linear walk is about to scan a transaction it has not visited
Scanning ==
  /\ pc = "linear"
  /\ Top.phase = "scan"
  /\ Top.ti <= Len(Top.address_txs)
  /\ Top.address_txs[Top.ti] \notin visited_transactions

\* C17: in linear mode, a transaction scanned at depth > 0 that contains the
\* start address is recorded (related_transactions, related_addresses) but
\* not scored, the invocation returns at once, and every caller returns
\* right after merging: nothing more is scanned, fetched or followed.
C17_LinearClosureStops ==
  /\ [][(Scanning /\ Top.depth > 0 /\ start_address # <<>>
           /\ start_address[1] \in ExtractAddresses(Top.address_txs[Top.ti]))
        => /\ scorings' = scorings
           /\ fetches' = fetches
           /\ visited_addresses' = visited_addresses
           /\ visited_transactions' =
                visited_transactions \cup {Top.address_txs[Top.ti]}
           /\ Len(stack') = Len(stack) - 1
           /\ stack'[Len(stack')].phase = "merged"
           /\ Top.address_txs[Top.ti] \in
                stack'[Len(stack')].results.related_transactions
           /\ ExtractAddresses(Top.address_txs[Top.ti]) \subseteq
                stack'[Len(stack')].results.related_addresses]_vars
  /\ [][(pc = "linear" /\ Top.phase = "merged")
        => /\ Len(stack') = Len(stack) - 1
           /\ stack' # <<>> => stack'[Len(stack')].phase = "merged"
           /\ scorings' = scorings
           /\ fetches' = fetches
           /\ visited_addresses' = visited_addresses
           /\ visited_transactions' = visited_transactions]_vars

\* C17 witness: a walk has ended whose result records a transaction that
\* touches the start address and was found below the top level, unscored
C17_Witness ==
  /\ entry = "coinjoin"
  /\ pc = "done"
  /\ result # <<>>
  /\ deepest_call > 0
  /\ scorings < Cardinality(visited_transactions)
  /\ \E t \in result[1].related_transactions :
       t \in visited_transactions /\ start_address[1] \in ExtractAddresses(t)

\* the scanned transaction touches the original input cluster
ClusterContact ==
  ExtractAddresses(Top.address_txs[Top.ti]) \cap original_input_addresses # {}

\* the scanned transaction is scored: it does not close the loop
Scored ==
  /\ Scanning
  /\ ~(Top.depth > 0 /\ start_address # <<>>
        /\ start_address[1] \in ExtractAddresses(Top.address_txs[Top.ti]))
  /\ ~scorer[Top.address_txs[Top.ti]].raises

\* C18: in linear mode a scored transaction that touches the original input
\* cluster resets the steps counter to 0 and any other one increments it;
\* when the counter reaches max_non_cluster_steps the invocation returns
\* without recursing, so no invocation ever runs, and no successor is ever
\* followed, with the counter at or above the limit.
C18_NonClusterSteps ==
  /\ [](pc = "linear" =>
          \A n \in 1..Len(stack) :
            stack[n].non_cluster_steps < config.max_non_cluster_steps)
  /\ [][Scored =>
          /\ (~ClusterContact /\ Top.non_cluster_steps + 1
                                   >= config.max_non_cluster_steps)
               => Len(stack') < Len(stack)
          /\ Len(stack') >= Len(stack) =>
               stack'[Len(stack)].non_cluster_steps =
                 IF ClusterContact THEN 0 ELSE Top.non_cluster_steps + 1
          /\ Len(stack') > Len(stack) =>
               /\ Len(stack') = Len(stack) + 1
               /\ stack'[Len(stack')].non_cluster_steps =
                    stack'[Len(stack)].non_cluster_steps]_vars

\* C18 witness: the walk returned to the input cluster after steps away
\* from it, and the counter is back at 0 in the call that follows
C18_Witness ==
  /\ pc = "linear"
  /\ Len(stack) >= 3
  /\ stack[Len(stack) - 1].non_cluster_steps = 0
  /\ stack[Len(stack) - 2].non_cluster_steps > 0
  /\ Top.non_cluster_steps = 0
  /\ Top.phase = "enter"

\* C19: the depth_reached handed to the result sink after investigate_coinjoin
\* is the depth of the last linear_investigation call the walk made.
C19_DepthReached ==
  (entry = "coinjoin" /\ pc = "done" /\ stored # <<>>)
    => stored[1].depth_reached = deepest_call

WalkLimit == IF max_depth < 0 THEN 0 ELSE max_depth

C21_NoPruningNearRoot ==
  /\ [][(pc = "tree" /\ Top.phase = "enter" /\ Top.depth <= 2
          /\ scorings' = scorings + 1 /\ ~scorer[Top.tx].raises)
        => /\ last_outcome' = "expand"
           /\ Len(stack') = Len(stack)
           /\ stack'[Len(stack)].phase = "addr"]_vars
  /\ [][(pc = "tree" /\ Top.phase = "child" /\ Top.depth <= 1
          /\ scorings' = scorings + 1
          /\ ~scorer[Top.child_txids[Top.ci]].raises)
        => /\ Len(stack') = Len(stack) + 1
           /\ stack'[Len(stack')].tx = Top.child_txids[Top.ci]
           /\ stack'[Len(stack')].phase = "enter"]_vars
  /\ [][(pc = "tree" /\ Top.phase = "enter")
        => /\ last_outcome' = "low_score" => Top.depth > 4
           /\ last_outcome' = "exchange_like" => Top.depth > 3]_vars

\* C21 witness: the chain 1 -> 2 -> 3 without closure, every score below
\* min_heuristic_score, max_depth 10: all three transactions were expanded
\* and the returned tree has depth 2
C21_Witness ==
  /\ pc = "done"
  /\ entry = "txid"
  /\ chain = ChainGraph(3, 0, FALSE)
  /\ max_depth = 10
  /\ \A t \in 1..3 : scorer[t].score < config.min_heuristic_score
  /\ visited_transactions = {1, 2, 3}
  /\ result # <<>>
  /\ Height(result[1]) = 2

RECURSIVE WithinFanOut(_, _)
\* no node of the tree has more than bound children
WithinFanOut(tree, bound) ==
  /\ Len(tree.out) <= bound
  /\ \A i \in 1..Len(tree.out) : WithinFanOut(tree.out[i], bound)

\* C22: every node of a tree has at most max_branches_per_node x 5
\* children: a node considers only its first max_branches_per_node output
\* addresses, and through each of them at most the first 5 listed
\* transactions, other than itself, that spend the address.  On the fan-out
\* graph the children through address 2 are the five newest of its six
\* spenders.
C22_FanOutCapped ==
  /\ [](InTree =>
          /\ \A n \in 1..Len(stack) :
               /\ Len(stack[n].selected_addresses)
                    <= config.max_branches_per_node
               /\ Len(stack[n].child_txids) <= ChildCap
               /\ Len(stack[n].child_nodes)
                    <= config.max_branches_per_node * ChildCap
               /\ \A i \in 1..Len(stack[n].child_nodes) :
                    WithinFanOut(stack[n].child_nodes[i],
                                 config.max_branches_per_node * ChildCap)
          /\ \A i \in 1..Len(result) :
               WithinFanOut(result[i],
                            config.max_branches_per_node * ChildCap))
  /\ [][(pc = "tree" /\ Len(stack) = 1 /\ Top.phase = "addr"
          /\ chain = FanOutGraph /\ Top.tx = 1 /\ Top.ai = 1
          /\ last_fetch' = "ok")
        => stack'[1].child_txids = <<7, 6, 5, 4, 3>>]_vars

\* C22 witness: with a single branch per node the root of the fan-out graph
\* came back with exactly five children, the newest spenders of address 2
C22_Witness ==
  /\ pc = "done"
  /\ entry = "txid"
  /\ chain = FanOutGraph
  /\ config.max_branches_per_node = 1
  /\ result # <<>>
  /\ Len(result[1].out) = 5
  /\ \A i \in 1..5 : result[1].out[i].tx.txid = 8 - i

\* the node of frame f is a high-confidence lead
StrongSignal(f) ==
  scorer[f.tx].is_coinjoin \/ scorer[f.tx].score >= SaturationScore

\* C23 as claimed: whenever more than 500 nodes have been processed and the
\* current depth is greater than 2, nothing is fetched for a node that is
\* neither flagged is_coinjoin nor scored at least 0.5 (stated for the first
\* investigation of an investigator).
C23_Original ==
  [][(pc = "tree" /\ runs = 1 /\ Top.depth > SaturationDepth
        /\ total_nodes_processed > SaturationNodes
        /\ ~StrongSignal(Top))
     => fetches' = fetches]_vars

\* C23 as amended: the saturation guard is evaluated once, when a node is
\* entered and has been counted and scored.  A node entered at depth > 2
\* that brings the count above 500 and is neither flagged is_coinjoin nor
\* scored at least 0.5 is returned as a leaf, and nothing is fetched for it;
\* a node the saturation guard truncates is always such a node.
C23_SaturationGuard ==
  /\ [][(pc = "tree" /\ Top.phase = "enter" /\ Top.depth > SaturationDepth
          /\ total_nodes_processed' > SaturationNodes
          /\ total_nodes_processed' = total_nodes_processed + 1
          /\ ~scorer[Top.tx].raises /\ ~StrongSignal(Top))
        => /\ fetches' = fetches
           /\ Len(stack') = Len(stack) - 1
           /\ stack' # <<>> =>
                LET kids == stack'[Len(stack')].child_nodes
                IN kids[Len(kids)] = Node(Top.tx, <<>>)]_vars
  /\ [][(pc = "tree" /\ Top.phase = "enter" /\ last_outcome' = "saturated")
        => /\ Top.depth > SaturationDepth
           /\ total_nodes_processed' > SaturationNodes
           /\ ~StrongSignal(Top)]_vars

\* C23 witness: the saturation guard has just returned a node as a leaf
C23_Witness ==
  /\ pc = "tree"
  /\ last_outcome = "saturated"
  /\ total_nodes_processed > SaturationNodes
  /\ Top.child_nodes # <<>>
  /\ Top.child_nodes[Len(Top.child_nodes)].out = <<>>
  /\ scorer[Top.child_nodes[Len(Top.child_nodes)].tx.txid].score
       >= config.min_heuristic_score

\* C24: in a tree traversal with min_coinjoin_ratio > 0 the set
\* coinjoin_transactions stays empty, so the ratio rule stops every node
\* entered once total_nodes_processed exceeds its threshold (100), whatever
\* the scorer returns: no tree investigation expands more than threshold + 1
\* transactions, the saturation guard never truncates a node, and with the
\* default configuration max_total_nodes is never reached.
C24_RatioRuleCapsTree ==
  /\ []((InTree /\ config.min_coinjoin_ratio > 0) =>
          /\ coinjoin_transactions = {}
          /\ total_nodes_processed <= RatioMinNodes + 1
          /\ Cardinality(visited_transactions) <= RatioMinNodes + 1
          /\ total_nodes_processed <= SaturationNodes
          /\ last_outcome # "saturated"
          /\ config = DefaultConfig =>
               total_nodes_processed < config.max_total_nodes)
  /\ [][(pc = "tree" /\ Top.phase = "enter" /\ config.min_coinjoin_ratio > 0
          /\ total_nodes_processed > RatioMinNodes)
        => /\ last_outcome' = "stop"
           /\ scorings' = scorings
           /\ visited_transactions' = visited_transactions
           /\ total_nodes_processed' = total_nodes_processed]_vars

\* C24 witness: under the default configuration, with every transaction
\* flagged is_coinjoin by the scorer, the ratio rule has stopped a node
\* after threshold + 1 transactions were expanded
C24_Witness ==
  /\ InTree
  /\ runs = 1
  /\ config = DefaultConfig
  /\ \A t \in Txs : scorer[t].is_coinjoin
  /\ last_outcome = "stop"
  /\ total_nodes_processed = RatioMinNodes + 1
  /\ Cardinality(visited_transactions) = RatioMinNodes + 1

\* C25: in a tree investigation the closure return of the address loop
\* (address in original_input_addresses and depth > 0) is never taken: the
\* address a node at depth > 0 is about to follow is never in the original
\* input cluster, because no output address of a node entered at depth > 0
\* is, and the cluster does not change while the traversal runs.
C25_AddressClosureDead ==
  /\ []((InTree /\ pc = "tree") =>
          \A n \in 1..Len(stack) :
            stack[n].depth > 0 =>
              /\ Range(stack[n].selected_addresses)
                   \cap original_input_addresses = {}
              /\ Range(OutAddresses(stack[n].tx))
                   \cap original_input_addresses = {})
  /\ [][pc = "tree" =>
          original_input_addresses' = original_input_addresses]_vars

\* C25 witness: a node at depth > 0 is in its address loop, about to follow
\* an output address, in a graph where another transaction does pay into
\* the original input cluster
C25_Witness ==
  /\ InTree
  /\ pc = "tree"
  /\ Top.depth > 0
  /\ Top.phase = "addr"
  /\ Top.ai <= Len(Top.selected_addresses)
  /\ \E t \in Txs \ {seed_txid} : OutputsTouchCluster(t)

\* C26: the coinjoin_found count the top-level linear_investigation call
\* returns never exceeds the number of distinct transactions the scorer
\* flagged as CoinJoin during the walk (stated for a positive max_depth).
C26_CoinjoinFound ==
  (entry = "coinjoin" /\ pc = "done" /\ result # <<>> /\ max_depth >= 1)
    => result[1].coinjoin_found <= flagged

\* the keys stored in cache c
StoredKeys(c) == {c[n].key : n \in 1..Len(c)}

\* C27: after any sequence of set, get, has, clear and cleanup_expired the
\* LRUCache holds at most max_size entries, one per key, and a set on a key
\* that is already stored removes no other key.
C27_SizeBounded ==
  /\ [](/\ Len(cache) <= max_size
        /\ Cardinality(StoredKeys(cache)) = Len(cache))
  /\ [][(last_op' # <<>> /\ last_op'.op = "set"
          /\ cache_clock' = cache_clock
          /\ last_op'.key \in StoredKeys(cache))
        => StoredKeys(cache') = StoredKeys(cache)]_vars

\* C27 witness: a set on a stored key of a full cache has just replaced the
\* value of that key, and the cache is still full
C27_Witness ==
  /\ last_op # <<>>
  /\ last_op.op = "set"
  /\ Len(cache) = max_size
  /\ cache[Len(cache)].key = last_op.key
  /\ cache[Len(cache)].value = "b"
  /\ cache[1].value = "a"
  /\ cache[Len(cache)].timestamp > cache[1].timestamp
  /\ recency = [n \in 1..Len(cache) |-> cache[n].key]

\* C28: a set of a new key on a full LRUCache evicts exactly one entry, the
\* least recently used one (a set and a successful get, has included, make
\* a key the most recently used), and no other call evicts: the stored keys
\* are always ordered by their last use.
C28_EvictsLeastRecent ==
  /\ [](recency = [n \in 1..Len(cache) |-> cache[n].key])
  /\ [][(last_op' # <<>> /\ last_op'.op = "set"
          /\ cache_clock' = cache_clock
          /\ last_op'.key \notin StoredKeys(cache)
          /\ Len(cache) >= max_size)
        => /\ StoredKeys(cache) \ StoredKeys(cache') = {recency[1]}
           /\ StoredKeys(cache') \ StoredKeys(cache) = {last_op'.key}]_vars

\* C28 witness: a set of a new key has just evicted an entry of another
\* key although an entry stored earlier is still there, that one having
\* been read since
C28_Witness ==
  /\ last_op # <<>>
  /\ last_op.op = "set"
  /\ Len(cache) = max_size
  /\ \E e \in last_op.dropped :
       /\ e.key # last_op.key
       /\ \E n \in 1..Len(cache) : cache[n].timestamp < e.timestamp

\* C29 as stated: a run of investigate_addresses adds at most one address
\* to investigated_addresses and never investigates an address that
\* add_related_addresses enqueued.
C29_Original ==
  /\ Cardinality(investigated_addresses) <= 1
  /\ investigated_addresses \cap enqueued = {}

\* C29: clusters and investigation_path are never written, so
\* should_stop_investigation returns True whenever it is evaluated and the
\* loop ends right after the first pass that reaches it; only a pass in
\* which storing the detected CoinJoins raised leaves an investigated
\* address behind and lets the loop go on to the next queued address.
C29_StopsAtFirstCheck ==
  /\ clusters = {}
  /\ investigation_path = <<>>
  /\ \A n \in 1..Len(stop_checks) : stop_checks[n]
  /\ Len(stop_checks) <= 1
  /\ Len(stop_checks) = 1 => queue_pc = "ended"
  /\ Cardinality({a \in investigated_addresses :
                    responses[a] # "store_raises"}) <= Len(stop_checks)

\* C29 witness: the run ended at its only stop check, with addresses still
\* queued, after a pass whose storing raised had let it investigate an
\* address that add_related_addresses enqueued
C29_Witness ==
  /\ queue_pc = "ended"
  /\ stop_checks = <<TRUE>>
  /\ investigation_queue # <<>>
  /\ consecutive_non_coinjoin < max_consecutive_non_coinjoin
  /\ Cardinality(investigated_addresses) >= 2
  /\ investigated_addresses \cap enqueued # {}

\* C30: investigate_from_address leaves max_depth as it found it: once the
\* walk has returned, or an exception raised in linear_investigation has
\* left it, max_depth is the value it had before the call, whatever the
\* max_depth argument was.
C30_MaxDepthRestored ==
  /\ []((entry = "from_address" /\ pc \in {"done", "raised"})
         => max_depth = config.investigation_max_depth)
  /\ [][(entry' = "from_address" /\ pc # "linear" /\ pc' = "linear")
         => /\ original_max_depth' = <<max_depth>>
            /\ max_depth' = (IF depth_arg' > 0 THEN depth_arg'
                             ELSE max_depth)]_vars

\* C30 witness: a walk started under a positive max_depth argument other
\* than the instance's max_depth was left by an exception of the scorer,
\* and max_depth is back at the value saved before the override
C30_Witness ==
  /\ entry = "from_address"
  /\ pc = "raised"
  /\ scorings >= 1
  /\ depth_arg > 0
  /\ original_max_depth # <<>>
  /\ depth_arg # original_max_depth[1]
  /\ max_depth = original_max_depth[1]

====
